---- MODULE Spec2Model ----
(***************************************************************************)
(* The graph container (model::Model), its dependency-ordered iterator     *)
(* (model::NodeIterator) and the identity-remapping context                *)
(* (model::ModelSerializationContext) of libraries/model/src/Model.cpp.    *)
(*                                                                         *)
(* Nodes live in a heap (the sequence `nodes`, indexed by handle = the     *)
(* node's address).  A container is a map from node id to handle.  Two     *)
(* containers exist: container 1 holds the graph the client built,         *)
(* container 2 starts empty and is the target of Deserialize.              *)
(***************************************************************************)
EXTENDS Integers, Sequences, FiniteSets, TLC

\* ------------------------------------------------------------------ bounds
MaxNodes == 4        \* nodes of the client-built graph
MaxLinks == 2        \* parent links of one node (over all its input ports)
MaxOutputs == 2      \* length of the outputNodes argument
MaxRestores == 2     \* Deserialize calls in one behaviour
MaxCalls == 4        \* calls made on a context a client holds
MaxStack == 32       \* cap of the work stack (never reached on an acyclic graph)

NULL == 0            \* nullptr

Ids == 1..MaxNodes
Models == {1, 2}
DescribeIter == 0    \* the iterator local to GetDescription
ClientIters == {1, 2}
SoloIters == {1}     \* the iterator of the runs with one client iterator
Iters == {DescribeIter} \cup ClientIters

VARIABLES
    nodes,           \* heap: handle -> [id, inputPorts, dependentNodes, alive]
    idToNodeMap,     \* Model::_idToNodeMap, per container: id -> handle or NULL
    iter,            \* the NodeIterator objects, by iterator
    descNodes,       \* GetDescription: the local vector `nodes`
    description,     \* the last description GetDescription returned
    describing,      \* the container GetDescription is running on, or NULL
    restore,         \* Deserialize: its position and locals
    restoreCount,    \* Deserialize calls so far
    inserted,        \* history: per container, the ids ever stored in its map
    lookup,          \* the last GetNode call: [model, id, result], or <<>>
    modelContext     \* a ModelSerializationContext in a client's hands

vars == <<nodes, idToNodeMap, iter, descNodes, description, describing,
          restore, restoreCount, inserted, lookup, modelContext>>

\* ------------------------------------------------------------ sequences
RECURSIVE Reverse(_)
Reverse(s) == IF s = <<>> THEN <<>> ELSE Append(Reverse(Tail(s)), Head(s))

RECURSIVE Flatten(_)
Flatten(ss) == IF ss = <<>> THEN <<>> ELSE Head(ss) \o Flatten(Tail(ss))

Range(s) == {s[k] : k \in 1..Len(s)}

Front(s) == SubSeq(s, 1, Len(s) - 1)

Last(s) == s[Len(s)]

SeqsUpTo(S, lo, hi) == UNION {[1..k -> S] : k \in lo..hi}

\* ------------------------------------------------------------ the graph
\* An input port: an ordered set of at most l parents.
PortsOver(P, l) == {s \in SeqsUpTo(P, 1, l) :
                       \A a, b \in 1..Len(s) : a # b => s[a] # s[b]}

\* The input ports of one node with at most l parent links, drawn from P.
PortListsOver(P, l) == {ps \in SeqsUpTo(PortsOver(P, l), 0, l) :
                           Len(Flatten(ps)) <= l}

\* Node::AddDependent on the heap ns.
AddDependent(ns, parent, child) ==
    IF child \in Range(ns[parent].dependentNodes) THEN ns
    ELSE [ns EXCEPT ![parent].dependentNodes = Append(@, child)]

RECURSIVE AddDependents(_, _, _)
AddDependents(ns, parents, child) ==
    IF parents = <<>> THEN ns
    ELSE AddDependents(AddDependent(ns, Head(parents), child), Tail(parents), child)

\* A node is created with its parents (which exist already) and registers
\* itself as a dependent of each: creation order is a topological order.
NewNode(ns, id, ports) ==
    AddDependents(Append(ns, [id |-> id, inputPorts |-> ports,
                              dependentNodes |-> <<>>, alive |-> TRUE]),
                  Flatten(ports), Len(ns) + 1)

\* The graphs of n nodes, each with at most l parent links.
RECURSIVE Graphs(_, _)
Graphs(n, l) ==
    IF n = 0 THEN {<<>>}
    ELSE {NewNode(g, n, ps) : g \in Graphs(n - 1, l),
                              ps \in PortListsOver(1..(n - 1), l)}

ParentNodes(h) == Flatten(nodes[h].inputPorts)

IsLeaf(h) == Len(nodes[h].dependentNodes) = 0

\* ------------------------------------------------------------ the container
Size(m) == Cardinality({id \in Ids : idToNodeMap[m][id] # NULL})

GetNode(m, id) == idToNodeMap[m][id]

Owned(m) == {idToNodeMap[m][id] : id \in Ids} \ {NULL}

\* Every link of every node of the container points to a live node: the
\* precondition under which an iterator may walk the container.
WellLinked(m) ==
    \A h \in Owned(m) :
        /\ nodes[h].alive
        /\ \A p \in Range(ParentNodes(h)) \cup Range(nodes[h].dependentNodes) :
              p # NULL /\ nodes[p].alive

\* ------------------------------------------------------------ the iterator
NoIter == [pc |-> "none", model |-> NULL, stack |-> <<>>, visitedNodes |-> {},
           currentNode |-> NULL, visitFullModel |-> FALSE, anOutputNode |-> NULL,
           \* history: the constructor's argument, and the nodes Next() returned
           outputNodes |-> <<>>, emitted |-> <<>>]

IsValid(i) == iter[i].currentNode # NULL

\* No handler is in the middle of its execution (the core is single-threaded).
Idle ==
    /\ \A i \in Iters : iter[i].pc \in {"none", "ready"}
    /\ describing = NULL
    /\ restore.pc = "idle"

\* Mutant: the test for an empty container is made in whole-graph mode only.
ConstructSizeTestLate(i, m, outputNodes, first) ==
    LET new == [NoIter EXCEPT !.model = m, !.outputNodes = outputNodes] IN
    IF Len(outputNodes) # 0
    THEN [new EXCEPT !.pc = "loop", !.stack = outputNodes]
    ELSE IF Size(m) = 0
         THEN [new EXCEPT !.pc = "ready"]
         ELSE [new EXCEPT !.pc = "seed", !.anOutputNode = first]

\* NodeIterator::NodeIterator, up to the seed search or the first Next().
Construct(i, m, outputNodes, first) ==
    LET new == [NoIter EXCEPT !.model = m, !.outputNodes = outputNodes] IN
    IF Size(m) = 0
    THEN [new EXCEPT !.pc = "ready"]
    ELSE IF Len(outputNodes) = 0
         THEN [new EXCEPT !.pc = "seed", !.anOutputNode = first]
         ELSE [new EXCEPT !.pc = "loop", !.stack = outputNodes]

\* Model::GetNodeIterator(outputNodes), called by the client.
GetNodeIterator(i, m, outputNodes) ==
    /\ Idle
    /\ iter[i].pc = "none"
    /\ WellLinked(m)
    /\ \E first \in IF Size(m) = 0 THEN {NULL} ELSE Owned(m) :
          iter' = [iter EXCEPT ![i] = Construct(i, m, outputNodes, first)]
    /\ lookup' = <<>>
    /\ UNCHANGED <<nodes, idToNodeMap, descNodes, description, describing,
                   restore, restoreCount, inserted,
                   modelContext>>

\* Mutant: the arbitrary first node is the seed, leaf or not.
SeedStepNoWalk(i) ==
    /\ iter[i].pc = "seed"
    /\ iter' = [iter EXCEPT ![i].stack = Append(@, iter[i].anOutputNode),
                            ![i].visitFullModel = TRUE,
                            ![i].pc = "loop"]
    /\ UNCHANGED <<nodes, idToNodeMap, descNodes, description, describing,
                   restore, restoreCount, inserted, lookup,
                   modelContext>>

\* One turn of "while (!IsLeaf(anOutputNode))", or the code after the loop.
SeedStep(i) ==
    /\ iter[i].pc = "seed"
    /\ LET n == iter[i].anOutputNode IN
          IF IsLeaf(n)
          THEN iter' = [iter EXCEPT ![i].stack = Append(@, n),
                                    ![i].visitFullModel = TRUE,
                                    ![i].pc = "loop"]
          ELSE iter' = [iter EXCEPT ![i].anOutputNode = nodes[n].dependentNodes[1]]
    /\ UNCHANGED <<nodes, idToNodeMap, descNodes, description, describing,
                   restore, restoreCount, inserted, lookup,
                   modelContext>>

\* The client calls Next() on an iterator it holds.
CallNext(i) ==
    /\ Idle
    /\ i \in ClientIters
    /\ iter[i].pc = "ready"
    /\ iter' = [iter EXCEPT ![i].currentNode = NULL, ![i].pc = "loop"]
    /\ lookup' = <<>>
    /\ UNCHANGED <<nodes, idToNodeMap, descNodes, description, describing,
                   restore, restoreCount, inserted,
                   modelContext>>

\* Next(): the loop condition fails and Next() returns.
NextExit(i) ==
    /\ iter[i].pc = "loop"
    /\ iter[i].stack = <<>>
    /\ iter' = [iter EXCEPT ![i].pc = "ready"]
    /\ UNCHANGED <<nodes, idToNodeMap, descNodes, description, describing,
                   restore, restoreCount, inserted, lookup,
                   modelContext>>

\* Mutant: the visited set is shared by all the iterators.
VisitedByAny(i, node) == \E j \in Iters : node \in iter[j].visitedNodes

\* Mutant: the already-visited test never succeeds.
VisitedNever(i, node) == FALSE

\* "_visitedNodes.find(node) != _visitedNodes.end()" at the top of the loop.
Visited(i, node) == node \in iter[i].visitedNodes

\* Next(): the top of the stack was visited already.
NextSkipVisited(i) ==
    /\ iter[i].pc = "loop"
    /\ iter[i].stack # <<>>
    /\ Visited(i, Last(iter[i].stack))
    /\ iter' = [iter EXCEPT ![i].stack = Front(@)]
    /\ UNCHANGED <<nodes, idToNodeMap, descNodes, description, describing,
                   restore, restoreCount, inserted, lookup,
                   modelContext>>

\* Mutant: only the first input port is tested.
CanVisitFirstPort(i, node) ==
    nodes[node].inputPorts # <<>> =>
        \A p \in Range(nodes[node].inputPorts[1]) : p \in iter[i].visitedNodes

\* "canVisit": every parent on every input port was visited.
CanVisit(i, node) == \A p \in Range(ParentNodes(node)) : p \in iter[i].visitedNodes

\* Mutant: the dependents are pushed in their natural order.
PushedDependentsUnreversed(i, node) ==
    IF iter[i].visitFullModel THEN nodes[node].dependentNodes ELSE <<>>

\* Mutant: the dependents are pushed in either mode.
PushedDependentsAlways(i, node) == Reverse(nodes[node].dependentNodes)

\* Mutant: the dependents are pushed in neither mode.
PushedDependentsNever(i, node) == <<>>

\* What the canVisit branch pushes after popping the node.
PushedDependents(i, node) ==
    IF iter[i].visitFullModel THEN Reverse(nodes[node].dependentNodes) ELSE <<>>

\* Next(): the top of the stack can be visited; it becomes the current node.
NextVisit(i) ==
    /\ iter[i].pc = "loop"
    /\ iter[i].stack # <<>>
    /\ LET node == Last(iter[i].stack) IN
          /\ ~Visited(i, node)
          /\ CanVisit(i, node)
          /\ iter' = [iter EXCEPT
                ![i].stack = Front(@) \o PushedDependents(i, node),
                ![i].visitedNodes = @ \cup {node},
                ![i].currentNode = node,
                ![i].emitted = Append(@, node),
                ![i].pc = "ready"]
    /\ UNCHANGED <<nodes, idToNodeMap, descNodes, description, describing,
                   restore, restoreCount, inserted, lookup,
                   modelContext>>

\* Mutant: the ports are walked in their natural order.
PushedParentsUnreversed(node) == Flatten(nodes[node].inputPorts)

\* Mutant: only the parents on the first input port are pushed.
PushedParentsFirstPort(node) == nodes[node].inputPorts[1]

\* What the else branch pushes: the ports in reverse, each port's parents in order.
PushedParents(node) == Flatten(Reverse(nodes[node].inputPorts))

\* Next(): the top of the stack has unvisited inputs; they go on the stack.
NextPushParents(i) ==
    /\ iter[i].pc = "loop"
    /\ iter[i].stack # <<>>
    /\ LET node == Last(iter[i].stack) IN
          /\ ~Visited(i, node)
          /\ ~CanVisit(i, node)
          /\ Len(iter[i].stack) < MaxStack
          /\ iter' = [iter EXCEPT ![i].stack = @ \o PushedParents(node)]
    /\ UNCHANGED <<nodes, idToNodeMap, descNodes, description, describing,
                   restore, restoreCount, inserted, lookup,
                   modelContext>>

\* The client drops an iterator.
Release(i) ==
    /\ Idle
    /\ i \in ClientIters
    /\ iter[i].pc = "ready"
    /\ iter' = [iter EXCEPT ![i] = NoIter]
    /\ lookup' = <<>>
    /\ UNCHANGED <<nodes, idToNodeMap, descNodes, description, describing,
                   restore, restoreCount, inserted,
                   modelContext>>

\* ------------------------------------------------------------ GetDescription
\* A node's own entry of a description: its id and, per input port, the ids
\* of the port's parents.
NodeEntry(h) ==
    [id |-> nodes[h].id,
     ports |-> [p \in 1..Len(nodes[h].inputPorts) |->
                  [k \in 1..Len(nodes[h].inputPorts[p]) |->
                      nodes[nodes[h].inputPorts[p][k]].id]]]

\* Model::GetDescription: "auto nodeIter = GetNodeIterator();"
DescribeBegin(m) ==
    /\ Idle
    /\ WellLinked(m)
    /\ describing' = m
    /\ descNodes' = <<>>
    /\ \E first \in IF Size(m) = 0 THEN {NULL} ELSE Owned(m) :
          iter' = [iter EXCEPT ![DescribeIter] = Construct(DescribeIter, m, <<>>, first)]
    /\ lookup' = <<>>
    /\ UNCHANGED <<nodes, idToNodeMap, description, restore, restoreCount, inserted,
                   modelContext>>

\* Mutant: the node is put at the front of the vector.
DescribeCollectFront ==
    /\ describing # NULL
    /\ iter[DescribeIter].pc = "ready"
    /\ IsValid(DescribeIter)
    /\ descNodes' = <<iter[DescribeIter].currentNode>> \o descNodes
    /\ iter' = [iter EXCEPT ![DescribeIter].currentNode = NULL,
                            ![DescribeIter].pc = "loop"]
    /\ UNCHANGED <<nodes, idToNodeMap, description, describing, restore,
                   restoreCount, inserted, lookup, modelContext>>

\* One turn of "while (nodeIter.IsValid())": push_back(Get()), then Next().
DescribeCollect ==
    /\ describing # NULL
    /\ iter[DescribeIter].pc = "ready"
    /\ IsValid(DescribeIter)
    /\ descNodes' = Append(descNodes, iter[DescribeIter].currentNode)
    /\ iter' = [iter EXCEPT ![DescribeIter].currentNode = NULL,
                            ![DescribeIter].pc = "loop"]
    /\ UNCHANGED <<nodes, idToNodeMap, description, describing, restore,
                   restoreCount, inserted, lookup,
                   modelContext>>

\* The loop ends: description["nodes"] << nodes; return.
DescribeReturn ==
    /\ describing # NULL
    /\ iter[DescribeIter].pc = "ready"
    /\ ~IsValid(DescribeIter)
    /\ description' = [k \in 1..Len(descNodes) |-> NodeEntry(descNodes[k])]
    /\ describing' = NULL
    /\ iter' = [iter EXCEPT ![DescribeIter] = NoIter]
    /\ UNCHANGED <<nodes, idToNodeMap, descNodes, restore, restoreCount,
                   inserted, lookup,
                   modelContext>>

\* ------------------------------------------------------------ Deserialize
NoContext == [id \in Ids |-> NULL]

\* Mutant: an id the context does not hold is looked up in the context the
\* context was made from.
GetNodeFromIdDelegating(ctx, id) == IF ctx[id] # NULL THEN ctx[id] ELSE restore.original[id]

\* ModelSerializationContext::GetNodeFromId: "_oldToNewNodeMap[id]".
GetNodeFromId(ctx, id) == ctx[id]

\* Mutant: a node registered for an id stays; a later one is dropped.
MapNodeFirstWins(ctx, id, node) == IF ctx[id] # NULL THEN ctx ELSE [ctx EXCEPT ![id] = node]

\* Mutant: the node is not recorded.
MapNodeLost(ctx, id, node) == ctx

\* ModelSerializationContext::MapNode.
MapNode(ctx, id, node) == [ctx EXCEPT ![id] = node]

IdleRestore == [pc |-> "idle", model |-> NULL, desc |-> <<>>, nodes |-> <<>>,
                idx |-> 0, context |-> NoContext, before |-> NoContext,
                registered |-> <<>>, original |-> NoContext]

\* A node as constructed from its entry: its parent links are not resolved yet.
UnlinkedNode(entry) ==
    [id |-> entry.id,
     inputPorts |-> [p \in 1..Len(entry.ports) |->
                       [k \in 1..Len(entry.ports[p]) |-> NULL]],
     dependentNodes |-> <<>>,
     alive |-> TRUE]

\* Model::Deserialize: the context is made and pushed.
DeserializeBegin(m, desc) ==
    /\ Idle
    /\ \A i \in Iters : iter[i].pc = "none"
    /\ restoreCount < MaxRestores
    /\ restoreCount' = restoreCount + 1
    /\ restore' = [IdleRestore EXCEPT !.pc = "construct", !.model = m, !.desc = desc,
                                      !.idx = 1, !.before = idToNodeMap[m]]
    /\ lookup' = <<>>
    /\ UNCHANGED <<nodes, idToNodeMap, iter, descNodes, description, describing,
                   inserted,
                   modelContext>>

\* Model::Deserialize called while a context that resolves the ids of the
\* nodes of container om is the serializer's context: the new context is made
\* from it ("_originalContext(otherContext)").
DeserializeNested(m, desc, om) ==
    /\ Idle
    /\ \A i \in Iters : iter[i].pc = "none"
    /\ restoreCount < MaxRestores
    /\ restoreCount' = restoreCount + 1
    /\ restore' = [IdleRestore EXCEPT !.pc = "construct", !.model = m, !.desc = desc,
                                      !.idx = 1, !.before = idToNodeMap[m],
                                      !.original = idToNodeMap[om]]
    /\ lookup' = <<>>
    /\ UNCHANGED <<nodes, idToNodeMap, iter, descNodes, description, describing,
                   inserted,
                   modelContext>>

\* serializer["nodes"] >> nodes: the next entry becomes a node, which records
\* itself in the context under the id of its entry.
DeserializeConstruct ==
    /\ restore.pc = "construct"
    /\ restore.idx <= Len(restore.desc)
    /\ LET entry == restore.desc[restore.idx]
           h == Len(nodes) + 1 IN
          /\ nodes' = Append(nodes, UnlinkedNode(entry))
          /\ restore' = [restore EXCEPT !.nodes = Append(@, h),
                                        !.context = MapNode(@, entry.id, h),
                                        !.idx = @ + 1]
    /\ UNCHANGED <<idToNodeMap, iter, descNodes, description, describing,
                   restoreCount, inserted, lookup,
                   modelContext>>

\* Mutant: the loop starts as soon as one entry is a node.
DeserializeConstructedEarly ==
    /\ restore.pc = "construct"
    /\ restore.idx > 1
    /\ restore' = [restore EXCEPT !.pc = "register", !.idx = 1]
    /\ UNCHANGED <<nodes, idToNodeMap, iter, descNodes, description, describing,
                   restoreCount, inserted, lookup,
                   modelContext>>

\* All the entries are nodes: the loop over them starts.
DeserializeConstructed ==
    /\ restore.pc = "construct"
    /\ restore.idx > Len(restore.desc)
    /\ restore' = [restore EXCEPT !.pc = "register", !.idx = 1]
    /\ UNCHANGED <<nodes, idToNodeMap, iter, descNodes, description, describing,
                   restoreCount, inserted, lookup,
                   modelContext>>

\* The parent links of node h, resolved through the context.
ResolvedPorts(ctx, entry) ==
    [p \in 1..Len(entry.ports) |->
        [k \in 1..Len(entry.ports[p]) |-> GetNodeFromId(ctx, entry.ports[p][k])]]

\* Node::RegisterDependencies: the node's encoded parent ids become parent
\* links, and the node becomes a dependent of each parent found.
RegisterDependencies(ns, ctx, h, entry) ==
    LET ports == ResolvedPorts(ctx, entry)
        found == SelectSeq(Flatten(ports), LAMBDA q : q # NULL) IN
    AddDependents([ns EXCEPT ![h].inputPorts = ports], found, h)

\* The loop body, first statement: sharedNode->RegisterDependencies().
DeserializeRegister ==
    /\ restore.pc = "register"
    /\ restore.idx <= Len(restore.nodes)
    /\ LET h == restore.nodes[restore.idx] IN
          /\ nodes' = RegisterDependencies(nodes, restore.context, h,
                                           restore.desc[restore.idx])
          /\ restore' = [restore EXCEPT !.pc = "insert",
                                        !.registered = Append(@, h)]
    /\ UNCHANGED <<idToNodeMap, iter, descNodes, description, describing,
                   restoreCount, inserted, lookup,
                   modelContext>>

\* Mutant: the node is stored under the id that follows its own.
MapInsertNextId(mp, id, h) == [mp EXCEPT ![(id % MaxNodes) + 1] = h]

\* Mutant: the map is cleared before the node is stored.
MapInsertCleared(mp, id, h) == [NoContext EXCEPT ![id] = h]

\* "_idToNodeMap[id] = sharedNode" on the map mp; the heap after it: the node
\* the entry held before loses its last owner.
MapInsert(mp, id, h) == [mp EXCEPT ![id] = h]

HeapAfterInsert(ns, mp, id, h) ==
    IF mp[id] # NULL /\ mp[id] # h THEN [ns EXCEPT ![mp[id]].alive = FALSE] ELSE ns

\* The loop body, second statement: _idToNodeMap[sharedNode->GetId()] = sharedNode.
DeserializeInsert ==
    /\ restore.pc = "insert"
    /\ LET h == restore.nodes[restore.idx]
           m == restore.model
           id == nodes[h].id IN
          /\ idToNodeMap' = [idToNodeMap EXCEPT ![m] = MapInsert(@, id, h)]
          /\ nodes' = HeapAfterInsert(nodes, idToNodeMap[m], id, h)
          /\ inserted' = [inserted EXCEPT ![m] = @ \cup {id}]
          /\ restore' = [restore EXCEPT !.pc = "register", !.idx = @ + 1]
    /\ UNCHANGED <<iter, descNodes, description, describing, restoreCount, lookup,
                   modelContext>>

\* The loop is over: serializer.PopContext(); return.
DeserializeEnd ==
    /\ restore.pc = "register"
    /\ restore.idx > Len(restore.nodes)
    /\ restore' = [restore EXCEPT !.pc = "idle"]
    /\ UNCHANGED <<nodes, idToNodeMap, iter, descNodes, description, describing,
                   restoreCount, inserted, lookup,
                   modelContext>>

\* ------------------------------------------------------------ the context
\* A context as constructed: an empty _oldToNewNodeMap; calls is the history
\* of the calls made on it, result what the last GetNodeFromId returned.
NewContext == [oldToNewNodeMap |-> NoContext, calls |-> <<>>, result |-> NULL]

\* A client calls MapNode(id, node) on the context.
ContextMapNode(id, node) ==
    /\ Idle
    /\ Len(modelContext.calls) < MaxCalls
    /\ modelContext' =
          [modelContext EXCEPT
             !.oldToNewNodeMap = MapNode(@, id, node),
             !.calls = Append(@, [op |-> "MapNode", id |-> id, node |-> node])]
    /\ UNCHANGED <<nodes, idToNodeMap, iter, descNodes, description, describing,
                   restore, restoreCount, inserted, lookup>>

\* A client calls GetNodeFromId(id) on the context.
ContextGetNodeFromId(id) ==
    /\ Idle
    /\ Len(modelContext.calls) < MaxCalls
    /\ modelContext' =
          [modelContext EXCEPT
             !.result = GetNodeFromId(modelContext.oldToNewNodeMap, id),
             !.calls = Append(@, [op |-> "GetNodeFromId", id |-> id, node |-> NULL])]
    /\ UNCHANGED <<nodes, idToNodeMap, iter, descNodes, description, describing,
                   restore, restoreCount, inserted, lookup>>

\* ------------------------------------------------------------ GetNode
\* The client calls Model::GetNode(id).
Lookup(m, id) ==
    /\ Idle
    /\ lookup' = [model |-> m, id |-> id, result |-> GetNode(m, id)]
    /\ UNCHANGED <<nodes, idToNodeMap, iter, descNodes, description, describing,
                   restore, restoreCount, inserted,
                   modelContext>>

\* ------------------------------------------------------------ specification
InitGraph(g) ==
    /\ nodes = g
    /\ idToNodeMap = [m \in Models |->
                        [id \in Ids |-> IF m = 1 /\ id <= Len(g) THEN id ELSE NULL]]
    /\ iter = [i \in Iters |-> NoIter]
    /\ descNodes = <<>>
    /\ description = <<>>
    /\ describing = NULL
    /\ restore = IdleRestore
    /\ restoreCount = 0
    /\ inserted = [m \in Models |-> {id \in Ids : m = 1 /\ id <= Len(g)}]
    /\ lookup = <<>>
    /\ modelContext = NewContext

Init == \E n \in 0..MaxNodes : \E g \in Graphs(n, MaxLinks) : InitGraph(g)

OutputNodeSeqs == SeqsUpTo(1..Len(nodes), 1, MaxOutputs)

Next ==
    \/ \E i \in SoloIters, m \in Models, outs \in OutputNodeSeqs \cup {<<>>} :
          GetNodeIterator(i, m, outs)
    \/ \E i \in Iters : SeedStep(i)
    \/ \E i \in Iters : CallNext(i)
    \/ \E i \in Iters : NextExit(i)
    \/ \E i \in Iters : NextSkipVisited(i)
    \/ \E i \in Iters : NextVisit(i)
    \/ \E i \in Iters : NextPushParents(i)
    \/ \E i \in Iters : Release(i)

Spec == Init /\ [][Next]_vars

\* A handler that has started runs on: the steps inside the constructor and
\* inside Next() are taken as long as they are possible.
Running(i) ==
    SeedStep(i) \/ NextExit(i) \/ NextSkipVisited(i) \/ NextVisit(i) \/ NextPushParents(i)

\* A client that holds an iterator goes on calling Next() or drops it.
FairSpec == Spec /\ \A i \in Iters : WF_vars(Running(i)) /\ WF_vars(CallNext(i))

\* ------------------------------------------------------------ cyclic graphs
\* Node child of the heap ns gets one more input port, before or after the
\* ports it has, with the one parent parent.
AddPort(ns, child, parent, atFront) ==
    AddDependent([ns EXCEPT ![child].inputPorts =
                      IF atFront THEN <<<<parent>>>> \o @ ELSE Append(@, <<parent>>)],
                 parent, child)

\* The graphs with a dependency cycle: a graph as constructed, to which the
\* client has added a link from a node to itself or to one made before it.
CyclicGraphs(n, l) ==
    UNION {{AddPort(g, c, p, f) : c \in 1..Len(g), p \in 1..Len(g), f \in BOOLEAN} \ {<<>>} :
           g \in Graphs(n, l)}

BackLinked(ns) ==
    \E c \in 1..Len(ns) : \E p \in Range(Flatten(ns[c].inputPorts)) : p >= c

InitCyclic ==
    \E n \in 1..(MaxNodes - 1) : \E g \in CyclicGraphs(n, MaxLinks) :
        BackLinked(g) /\ InitGraph(g)

SpecCyclic == InitCyclic /\ [][Next]_vars

\* ------------------------------------------------------------ two iterators
\* The client holds two iterators over the same containers and calls Next()
\* on them in any order.
NextTwo ==
    \/ \E i \in ClientIters, m \in Models, outs \in OutputNodeSeqs \cup {<<>>} :
          GetNodeIterator(i, m, outs)
    \/ \E i \in ClientIters : SeedStep(i)
    \/ \E i \in ClientIters : CallNext(i)
    \/ \E i \in ClientIters : NextExit(i)
    \/ \E i \in ClientIters : NextSkipVisited(i)
    \/ \E i \in ClientIters : NextVisit(i)
    \/ \E i \in ClientIters : NextPushParents(i)
    \/ \E i \in ClientIters : Release(i)

InitTwo == \E n \in 0..(MaxNodes - 1) : \E g \in Graphs(n, MaxLinks) : InitGraph(g)

SpecTwo == InitTwo /\ [][NextTwo]_vars

\* ------------------------------------------------------------ round trips
\* The client describes container 1 and restores what it got into container 2.
NextRoundTrip ==
    \/ DescribeBegin(1)
    \/ SeedStep(DescribeIter)
    \/ NextExit(DescribeIter)
    \/ NextSkipVisited(DescribeIter)
    \/ NextVisit(DescribeIter)
    \/ NextPushParents(DescribeIter)
    \/ DescribeCollect
    \/ DescribeReturn
    \/ description # <<>> /\ DeserializeBegin(2, description)
    \/ DeserializeConstruct
    \/ DeserializeConstructed
    \/ DeserializeRegister
    \/ DeserializeInsert
    \/ DeserializeEnd

SpecRoundTrip == Init /\ [][NextRoundTrip]_vars

\* ------------------------------------------------------------ restore runs
\* Descriptions a client hands to Deserialize: up to two entries over two ids,
\* one of which every non-empty container 1 holds; the entries are unrelated,
\* or one feeds the other (parent first, or child first).
PoolIds == {1, MaxNodes}

PoolEntry(id, parents) ==
    [id |-> id, ports |-> IF parents = <<>> THEN <<>> ELSE <<parents>>]

DescriptionPool ==
    {<<PoolEntry(a, <<>>)>> : a \in PoolIds}
    \cup {<<PoolEntry(a, <<>>), PoolEntry(b, <<>>)>> : a, b \in PoolIds}
    \cup {<<PoolEntry(1, <<>>), PoolEntry(MaxNodes, <<1>>)>>,
          <<PoolEntry(MaxNodes, <<1>>), PoolEntry(1, <<>>)>>}

NextRestore ==
    \/ \E m \in Models, desc \in DescriptionPool : DeserializeBegin(m, desc)
    \/ DeserializeConstruct
    \/ DeserializeConstructed
    \/ DeserializeRegister
    \/ DeserializeInsert
    \/ DeserializeEnd
    \/ \E m \in Models, id \in Ids : Lookup(m, id)

\* Deserialize reads no link of the nodes a container holds already: the
\* containers it runs on here hold the graphs of single-parent nodes.
InitRestore == \E n \in 0..MaxNodes : \E g \in Graphs(n, 1) : InitGraph(g)

SpecRestore == InitRestore /\ [][NextRestore]_vars

\* Descriptions with an entry whose encoded parent id is the id of no entry.
DanglingPool ==
    UNION {{<<PoolEntry(a, <<b>>)>> : b \in Ids \ {a}} : a \in PoolIds}
    \cup {<<PoolEntry(1, <<2>>), PoolEntry(MaxNodes, <<2>>)>>,
          <<PoolEntry(1, <<>>), PoolEntry(MaxNodes, <<2>>)>>}

NextDangling ==
    \/ \E m \in Models, desc \in DanglingPool : DeserializeBegin(m, desc)
    \/ DeserializeConstruct
    \/ DeserializeConstructed
    \/ DeserializeRegister
    \/ DeserializeInsert
    \/ DeserializeEnd
    \/ \E m \in Models, id \in Ids : Lookup(m, id)

SpecDangling == InitRestore /\ [][NextDangling]_vars

\* A client registers nodes of the heap under the pool's ids and looks ids
\* up, in any order.
NextContext ==
    \/ \E id \in PoolIds, node \in 1..Len(nodes) : ContextMapNode(id, node)
    \/ \E id \in PoolIds : ContextGetNodeFromId(id)

SpecContext == InitRestore /\ [][NextContext]_vars

\* Restores into container 2 nested in a context of the graph of container 1.
NextNested ==
    \/ \E desc \in DanglingPool \cup DescriptionPool : DeserializeNested(2, desc, 1)
    \/ DeserializeConstruct
    \/ DeserializeConstructed
    \/ DeserializeRegister
    \/ DeserializeInsert
    \/ DeserializeEnd
    \/ \E m \in Models, id \in Ids : Lookup(m, id)

SpecNested == InitRestore /\ [][NextNested]_vars

\* ------------------------------------------------------------ properties
Exhausted(i) == iter[i].pc = "ready" /\ iter[i].currentNode = NULL

EmittedBefore(i, k) == {iter[i].emitted[j] : j \in 1..(k - 1)}

\* The nodes of S and all their transitive ancestors.
RECURSIVE AncestorClosure(_)
AncestorClosure(S) ==
    LET T == S \cup UNION {Range(ParentNodes(h)) : h \in S} IN
    IF T = S THEN S ELSE AncestorClosure(T)

\* The nodes linked to S by parent links, followed in either direction.
RECURSIVE Component(_)
Component(S) ==
    LET T == S \cup UNION {Range(ParentNodes(h)) \cup Range(nodes[h].dependentNodes) : h \in S} IN
    IF T = S THEN S ELSE Component(T)

Connected(m) == \A h \in Owned(m) : Component({h}) = Owned(m)

\* C1: in both modes, when a node is emitted, every parent on every input
\* port, and so every transitive ancestor, was emitted by an earlier advance.
C1_ParentsEmittedEarlier ==
    \A i \in Iters : \A k \in 1..Len(iter[i].emitted) :
        AncestorClosure({iter[i].emitted[k]}) \ {iter[i].emitted[k]}
            \subseteq EmittedBefore(i, k)

\* A restricted iterator has emitted a node fed through two input ports,
\* after three ancestors.
C1_Witness ==
    \E i \in Iters :
        /\ ~iter[i].visitFullModel
        /\ Len(iter[i].emitted) = 4
        /\ Len(nodes[iter[i].emitted[4]].inputPorts) = 2
        /\ Cardinality(Range(ParentNodes(iter[i].emitted[4]))) = 2

\* C2: no node is emitted more than once over an iteration, however often it
\* was pushed or listed among the output nodes.
C2_EmittedOnce ==
    \A i \in Iters : \A j, k \in 1..Len(iter[i].emitted) :
        j # k => iter[i].emitted[j] # iter[i].emitted[k]

\* An iteration that was given the same output node twice, a node with two
\* parents, has run to exhaustion.
C2_Witness ==
    \E i \in Iters :
        /\ Exhausted(i)
        /\ Len(iter[i].outputNodes) = 2
        /\ iter[i].outputNodes[1] = iter[i].outputNodes[2]
        /\ Cardinality(Range(ParentNodes(iter[i].outputNodes[1]))) = 2
        /\ Len(iter[i].emitted) >= 3

Restricted(i) ==
    iter[i].pc # "none" /\ iter[i].outputNodes # <<>> /\ Size(iter[i].model) > 0

\* C3: over a non-empty container and with output nodes given, the iterator
\* never emits a node that is neither an output node nor an ancestor of one,
\* and at exhaustion it has emitted all of these.
C3_ExactlyAncestors ==
    \A i \in Iters :
        Restricted(i) =>
            /\ Range(iter[i].emitted) \subseteq AncestorClosure(Range(iter[i].outputNodes))
            /\ Exhausted(i) =>
                  Range(iter[i].emitted) = AncestorClosure(Range(iter[i].outputNodes))

\* A restricted iteration is exhausted, and a dependent of an emitted node
\* was left out.
C3_Witness ==
    \E i \in Iters :
        /\ Restricted(i)
        /\ Exhausted(i)
        /\ Len(iter[i].emitted) >= 2
        /\ \E h \in Range(iter[i].emitted) :
              Range(nodes[h].dependentNodes) \ Range(iter[i].emitted) # {}

\* C4: in whole-graph mode over a connected container, whichever node the
\* search for a seed started from, the iterator does not report exhaustion
\* before it has emitted every node of the container.
C4_WholeGraphEmitsAll ==
    \A i \in Iters :
        (iter[i].visitFullModel /\ Connected(iter[i].model) /\ Exhausted(i))
            => Range(iter[i].emitted) = Owned(iter[i].model)

\* A whole-graph iteration over a connected graph of four nodes with two
\* sinks is exhausted.
C4_Witness ==
    \E i \in Iters :
        /\ iter[i].visitFullModel
        /\ Exhausted(i)
        /\ Connected(iter[i].model)
        /\ Len(iter[i].emitted) = 4
        /\ Cardinality({h \in Owned(iter[i].model) : IsLeaf(h)}) = 2

\* C5: the nodes of a description GetDescription returned are all the nodes
\* of the container: as many as Size, and every id of the map among them.
C5_DescribeAllNodes ==
    description # <<>> =>
        /\ Len(description) = Size(1)
        /\ \A id \in Ids :
              idToNodeMap[1][id] # NULL => \E k \in 1..Len(description) : description[k].id = id

\* The first Deserialize, of a description of container 1 into the empty
\* container 2, has returned.
RoundTripDone == restoreCount = 1 /\ restore.pc = "idle"

IdOf(h) == IF h = NULL THEN NULL ELSE nodes[h].id

ParentIds(h) ==
    [p \in 1..Len(nodes[h].inputPorts) |->
        [k \in 1..Len(nodes[h].inputPorts[p]) |-> IdOf(nodes[h].inputPorts[p][k])]]

DependentIds(h) == {IdOf(d) : d \in Range(nodes[h].dependentNodes)}

HeldIds(m) == {id \in Ids : idToNodeMap[m][id] # NULL}

SameGraph(m1, m2) ==
    /\ Size(m1) = Size(m2)
    /\ HeldIds(m1) = HeldIds(m2)
    /\ \A id \in HeldIds(m1) \cap HeldIds(m2) :
          /\ IdOf(idToNodeMap[m2][id]) = id
          /\ ParentIds(idToNodeMap[m1][id]) = ParentIds(idToNodeMap[m2][id])
          /\ DependentIds(idToNodeMap[m1][id]) = DependentIds(idToNodeMap[m2][id])

\* C6: the description of a container, restored into an empty container,
\* gives a container of the same size and ids in which every node has, by
\* id, the parents (port by port) and the dependents it had: for every
\* connected graph, so for the single node, the chain of three and the diamond.
C6_RoundTrip ==
    (RoundTripDone /\ Connected(1)) => SameGraph(1, 2)

Diamond(m) ==
    \E a, b, c, d \in Owned(m) :
        /\ Cardinality({a, b, c, d}) = 4
        /\ nodes[a].inputPorts = <<>>
        /\ nodes[b].inputPorts = <<(<<a>>)>>
        /\ nodes[c].inputPorts = <<(<<a>>)>>
        /\ nodes[d].inputPorts = <<(<<b>>), (<<c>>)>>

\* The round trip of a diamond is over.
C6_Witness == RoundTripDone /\ Diamond(1) /\ Diamond(2)

\* C7: on the acyclic graphs, the constructor with its search for a seed and
\* every call of Next() return, and a client that goes on calling Next() is
\* told after finitely many calls that the iterator is exhausted: no current
\* node, the work stack empty.
C7_Terminates ==
    \A i \in Iters :
        /\ (iter[i].pc \in {"seed", "loop"}) ~> (iter[i].pc = "ready")
        /\ (iter[i].pc # "none") ~>
               ((Exhausted(i) /\ iter[i].stack = <<>>) \/ iter[i].pc = "none")

\* A whole-graph iteration whose search for a seed took two steps from the
\* first node of the map, and which emitted four nodes, is exhausted.
C7_Witness ==
    \E i \in Iters :
        /\ Exhausted(i)
        /\ iter[i].visitFullModel
        /\ Len(iter[i].emitted) = 4
        /\ \E h \in Owned(iter[i].model) :
              /\ ~IsLeaf(h)
              /\ ~IsLeaf(nodes[h].dependentNodes[1])
              /\ IsLeaf(nodes[nodes[h].dependentNodes[1]].dependentNodes[1])

\* C8: an iterator over a container without nodes has no current node, an
\* empty stack and nothing emitted, from its construction on, in both modes.
C8_EmptyContainerExhausted ==
    \A i \in Iters :
        (iter[i].pc # "none" /\ Size(iter[i].model) = 0) =>
            /\ iter[i].pc \in {"ready", "loop"}
            /\ iter[i].stack = <<>>
            /\ iter[i].currentNode = NULL
            /\ iter[i].emitted = <<>>
            /\ iter[i].visitedNodes = {}

\* A restricted iterator over the empty container has been constructed.
C8_Witness ==
    \E i \in Iters :
        /\ iter[i].pc = "ready"
        /\ Size(iter[i].model) = 0
        /\ iter[i].outputNodes # <<>>

\* C9: in every state of a container, before and after restores of
\* descriptions without the id, GetNode of an id never inserted returns
\* nullptr, and GetNode of an id the map holds returns the node it holds.
C9_LookupAbsent ==
    /\ \A m \in Models : \A id \in Ids \ inserted[m] : GetNode(m, id) = NULL
    /\ lookup # <<>> =>
          /\ lookup.id \notin inserted[lookup.model] => lookup.result = NULL
          /\ lookup.id \in HeldIds(lookup.model) =>
                /\ lookup.result = idToNodeMap[lookup.model][lookup.id]
                /\ lookup.result # NULL
                /\ nodes[lookup.result].id = lookup.id

\* After two restores into a container, GetNode of an id no description held
\* has returned nullptr.
C9_Witness ==
    /\ lookup # <<>>
    /\ restoreCount = 2
    /\ inserted[lookup.model] # {}
    /\ restore.model = lookup.model
    /\ lookup.id \notin inserted[lookup.model]
    /\ lookup.result = NULL

DescIds(desc) == {desc[k].id : k \in 1..Len(desc)}

BeforeIds == {id \in Ids : restore.before[id] # NULL}

\* C10: Deserialize into a container that holds nodes leaves every entry
\* whose id is not in the description as it was, throughout; once it has
\* returned, every id of the description is mapped to a node made from the
\* description, not to the node held before, and Size is the number of
\* distinct ids of the old entries and the description together.
C10_RestoreMerges ==
    restore.model # NULL =>
        /\ \A id \in Ids \ DescIds(restore.desc) :
              idToNodeMap[restore.model][id] = restore.before[id]
        /\ restore.pc = "idle" =>
              /\ \A id \in DescIds(restore.desc) :
                    /\ idToNodeMap[restore.model][id] \in Range(restore.nodes)
                    /\ nodes[idToNodeMap[restore.model][id]].id = id
                    /\ idToNodeMap[restore.model][id] # restore.before[id]
              /\ Size(restore.model) = Cardinality(BeforeIds \cup DescIds(restore.desc))

\* A Deserialize has returned that replaced one entry of the container, kept
\* another and added a third.
C10_Witness ==
    /\ restore.model # NULL
    /\ restore.pc = "idle"
    /\ BeforeIds \cap DescIds(restore.desc) # {}
    /\ BeforeIds \ DescIds(restore.desc) # {}
    /\ DescIds(restore.desc) \ BeforeIds # {}

\* What Next() does to a stack and a visited set until the stack is empty,
\* written as one function: the nodes it returns, in order.
RECURSIVE RunAlone(_, _, _, _)
RunAlone(stack, visited, full, out) ==
    IF stack = <<>> THEN out
    ELSE LET node == Last(stack) IN
         IF node \in visited THEN RunAlone(Front(stack), visited, full, out)
         ELSE IF \A p \in Range(ParentNodes(node)) : p \in visited
              THEN RunAlone(Front(stack) \o (IF full THEN Reverse(nodes[node].dependentNodes)
                                                     ELSE <<>>),
                            visited \cup {node}, full, Append(out, node))
              ELSE RunAlone(stack \o Flatten(Reverse(nodes[node].inputPorts)),
                            visited, full, out)

RECURSIVE FirstLeaf(_)
FirstLeaf(h) == IF IsLeaf(h) THEN h ELSE FirstLeaf(nodes[h].dependentNodes[1])

\* The sequence iterator i emits when no other iterator exists.
AloneSequence(i) ==
    IF Size(iter[i].model) = 0 THEN <<>>
    ELSE IF iter[i].outputNodes # <<>>
         THEN RunAlone(iter[i].outputNodes, {}, FALSE, <<>>)
         ELSE RunAlone(<<FirstLeaf(iter[i].anOutputNode)>>, {}, TRUE, <<>>)

IsPrefix(a, b) == Len(a) <= Len(b) /\ a = SubSeq(b, 1, Len(a))

EmitsAsAlone ==
    \A i \in ClientIters :
        iter[i].pc # "none" =>
            /\ IsPrefix(iter[i].emitted, AloneSequence(i))
            /\ Exhausted(i) => iter[i].emitted = AloneSequence(i)

\* C11: making an iterator and calling Next() change neither the id-to-node
\* map nor a link of a node, and two iterators over the unmodified containers
\* whose Next() calls are interleaved each emit the sequence they emit alone.
C11_IteratorsReadOnly ==
    /\ []EmitsAsAlone
    /\ [][nodes' = nodes /\ idToNodeMap' = idToNodeMap]_vars

\* Two iterators over container 1, one in each mode, are both exhausted after
\* three nodes each, emitted in different orders.
C11_Witness ==
    /\ Exhausted(1) /\ Exhausted(2)
    /\ iter[1].visitFullModel /\ ~iter[2].visitFullModel
    /\ Len(iter[1].emitted) = 3 /\ Len(iter[2].emitted) = 3
    /\ iter[1].emitted # iter[2].emitted

Unresolved(h) == \E q \in Range(ParentNodes(h)) : q = NULL

\* C12: a Deserialize of a description with an entry whose encoded parent id
\* is the id of no entry does not return leaving, in the container, a node
\* with a parent link that is not resolved.
C12_DanglingRejected ==
    (restore.pc = "idle" /\ restore.model # NULL) =>
        \A h \in Owned(restore.model) : ~Unresolved(h)

\* The links of the nodes on which RegisterDependencies has run:
\* <<link, encoded parent id>> for every parent of every port.
RegisteredLinks ==
    UNION {UNION {{<<nodes[restore.nodes[k]].inputPorts[p][q], restore.desc[k].ports[p][q]>> :
                      q \in 1..Len(restore.desc[k].ports[p])} :
                  p \in 1..Len(restore.desc[k].ports)} :
           k \in 1..Len(restore.registered)}

\* C13 as stated: an id the inner context does not hold and the context it
\* was made from resolves is resolved to the enclosing graph's node.
C13_DelegatesToOuter ==
    \A l \in RegisteredLinks :
        (restore.context[l[2]] = NULL /\ restore.original[l[2]] # NULL) =>
            l[1] = restore.original[l[2]]

\* C13: the lookup of a nested restore's context answers from the nodes
\* registered in that context only: an id not registered in it gives the
\* null node, also when the context it was made from resolves the id.
C13_InnerContextOnly ==
    \A l \in RegisteredLinks :
        /\ l[1] = restore.context[l[2]]
        /\ restore.context[l[2]] = NULL => l[1] = NULL

\* A nested restore has returned; an entry's parent id was not registered in
\* its context, the enclosing graph holds a node of that id, and the link is
\* the null node.
C13_Witness ==
    /\ restore.pc = "idle"
    /\ \E l \in RegisteredLinks :
          /\ restore.context[l[2]] = NULL
          /\ restore.original[l[2]] # NULL
          /\ l[1] = NULL

\* The nodes on a dependency cycle, and those and the nodes that depend,
\* directly or not, on one.
OnCycle(h) == h \in AncestorClosure(Range(ParentNodes(h)))

Tainted(h) == \E a \in AncestorClosure({h}) : OnCycle(a)

TaintedOnStack(i) == \E k \in 1..Len(iter[i].stack) : Tainted(iter[i].stack[k])

\* C14 as stated: with a node of a cycle, or a node depending on one, on the
\* stack, the Next() call in progress does not complete.
C14_NextNeverCompletes ==
    [][\A i \in ClientIters :
          (TaintedOnStack(i) /\ iter[i].pc = "loop") => iter'[i].pc = "loop"]_vars

NoTaintedEmitted ==
    \A i \in ClientIters : \A k \in 1..Len(iter[i].emitted) : ~Tainted(iter[i].emitted[k])

TaintedStays(i) ==
    (TaintedOnStack(i) /\ iter'[i].pc # "none") =>
        /\ TaintedOnStack(i)'
        /\ ~Exhausted(i)'

TaintedTopGrows(i) ==
    (/\ iter[i].pc = "loop"
     /\ iter[i].stack # <<>>
     /\ Tainted(Last(iter[i].stack))
     /\ iter'[i] # iter[i]) =>
        /\ iter'[i].pc = "loop"
        /\ Len(iter'[i].stack) > Len(iter[i].stack)
        /\ SubSeq(iter'[i].stack, 1, Len(iter[i].stack)) = iter[i].stack
        /\ iter'[i].emitted = iter[i].emitted

\* C14: no node on a cycle and no node that depends on one is ever emitted;
\* once such a node is on the stack one stays there as long as the iterator
\* lives, so the iterator never reports exhaustion; and a turn of Next()'s
\* loop that finds such a node on top leaves it there, pushes its parents
\* above it and goes on looping. (A Next() call still returns whenever a
\* node above it that depends on no cycle can be emitted.)
C14_CycleNeverEmitted ==
    /\ []NoTaintedEmitted
    /\ [][\A i \in ClientIters : TaintedStays(i) /\ TaintedTopGrows(i)]_vars

\* Inside a Next() call, after a node that depends on no cycle was emitted,
\* the stack holds the same node of a cycle three times.
C14_Witness ==
    \E i \in ClientIters :
        /\ iter[i].pc = "loop"
        /\ iter[i].emitted # <<>>
        /\ \E h \in Range(iter[i].stack) :
              /\ OnCycle(h)
              /\ Cardinality({k \in 1..Len(iter[i].stack) : iter[i].stack[k] = h}) >= 3

\* The nodes met from h by following the first dependent again and again.
RECURSIVE FirstDependentChain(_)
FirstDependentChain(h) ==
    IF IsLeaf(h) THEN {h} ELSE {h} \cup FirstDependentChain(nodes[h].dependentNodes[1])

\* The constructor, called on a non-empty container with output nodes, has
\* taken them as the stack and goes to its first Next().
SeedsRestricted(i) ==
    (/\ iter[i].pc = "none"
     /\ iter'[i].pc # "none"
     /\ Size(iter'[i].model) > 0
     /\ iter'[i].outputNodes # <<>>) =>
        /\ iter'[i].pc = "loop"
        /\ iter'[i].stack = iter'[i].outputNodes
        /\ ~iter'[i].visitFullModel

\* The constructor, called on a non-empty container without output nodes,
\* starts a search at a node of the container; the search stays on the
\* first-dependent chain of that node and ends by seeding one leaf.
SeedsWholeGraph(i) ==
    /\ (/\ iter[i].pc = "none"
        /\ iter'[i].pc # "none"
        /\ Size(iter'[i].model) > 0
        /\ iter'[i].outputNodes = <<>>) =>
           /\ iter'[i].pc = "seed"
           /\ iter'[i].stack = <<>>
           /\ iter'[i].anOutputNode \in Owned(iter'[i].model)
    /\ (iter[i].pc = "seed" /\ iter'[i].pc = "seed") =>
           /\ ~IsLeaf(iter[i].anOutputNode)
           /\ iter'[i].anOutputNode = nodes[iter[i].anOutputNode].dependentNodes[1]
           /\ iter'[i].stack = <<>>
    /\ (iter[i].pc = "seed" /\ iter'[i].pc # "seed") =>
           /\ iter'[i].pc = "loop"
           /\ IsLeaf(iter[i].anOutputNode)
           /\ iter'[i].stack = <<iter[i].anOutputNode>>
           /\ iter'[i].visitFullModel

\* From the constructor's return on, the flag tells the mode; during the
\* search the node at hand is on the first-dependent chain of a node of the
\* container.
ModeFlag ==
    \A i \in Iters :
        /\ iter[i].pc \in {"loop", "ready"} =>
              (iter[i].visitFullModel <=>
                  (iter[i].outputNodes = <<>> /\ Size(iter[i].model) > 0))
        /\ iter[i].pc = "seed" =>
              /\ ~iter[i].visitFullModel
              /\ \E first \in Owned(iter[i].model) :
                    iter[i].anOutputNode \in FirstDependentChain(first)

\* C15: over a non-empty container, the constructor given output nodes seeds
\* the stack with exactly those nodes and leaves the whole-graph flag off;
\* given none, it sets the flag and seeds the stack with exactly one node,
\* which has no dependents and is reached from a node of the container by
\* following the first dependent repeatedly.
C15_ModeAndSeed ==
    /\ []ModeFlag
    /\ [][\A i \in Iters : SeedsRestricted(i) /\ SeedsWholeGraph(i)]_vars

\* A whole-graph iterator is seeded with a leaf two first-dependent links
\* away from the node the search started at, which has a second dependent.
C15_Witness ==
    \E i \in ClientIters :
        /\ iter[i].pc = "loop"
        /\ iter[i].visitFullModel
        /\ iter[i].emitted = <<>>
        /\ Len(iter[i].stack) = 1
        /\ \E a, b \in Owned(iter[i].model) :
              /\ Len(nodes[a].dependentNodes) = 2
              /\ nodes[a].dependentNodes[1] = b
              /\ nodes[b].dependentNodes # <<>>
              /\ nodes[b].dependentNodes[1] = iter[i].stack[1]
              /\ nodes[a].dependentNodes[2] # iter[i].stack[1]

\* Iterator i is in Next()'s loop with, on top of the stack, a node not
\* visited that has a parent not visited, and takes a step.
ExaminesUnready(i) ==
    /\ iter[i].pc = "loop"
    /\ iter[i].stack # <<>>
    /\ Last(iter[i].stack) \notin iter[i].visitedNodes
    /\ \E p \in Range(ParentNodes(Last(iter[i].stack))) : p \notin iter[i].visitedNodes
    /\ iter'[i] # iter[i]

\* The entries of the stack after the step above those before it, top first.
AboveTopDown(i) ==
    Reverse(SubSeq(iter'[i].stack, Len(iter[i].stack) + 1, Len(iter'[i].stack)))

NotPopped(i) ==
    /\ Len(iter'[i].stack) > Len(iter[i].stack)
    /\ SubSeq(iter'[i].stack, 1, Len(iter[i].stack)) = iter[i].stack
    /\ iter'[i].pc = "loop"
    /\ iter'[i].visitedNodes = iter[i].visitedNodes
    /\ iter'[i].emitted = iter[i].emitted

\* C16 as stated: the node stays and, from the top down, the entries above
\* it are its parents in natural order, first port first, first parent first.
C16_ParentsTopDownNatural ==
    [][\A i \in Iters :
          ExaminesUnready(i) =>
              /\ NotPopped(i)
              /\ AboveTopDown(i) = ParentNodes(Last(iter[i].stack))]_vars

\* The ports in their order, each with its parents in reverse.
PortsEachReversed(h) ==
    Flatten([p \in 1..Len(nodes[h].inputPorts) |-> Reverse(nodes[h].inputPorts[p])])

\* C16: a node on top of the stack that is not visited and not visit-ready
\* is not popped, and all its parents are pushed above it, the ports in
\* reverse order and the parents of a port in their natural order: from the
\* top down the entries above the node are the first port's parents, last
\* parent first, then the second port's, and so on.
C16_ParentsPortsReversedOnly ==
    [][\A i \in Iters :
          ExaminesUnready(i) =>
              /\ NotPopped(i)
              /\ AboveTopDown(i) = PortsEachReversed(Last(iter[i].stack))]_vars

\* The one output node, with two parents on one port, was examined: the two
\* parents lie above it, the second parent on top.
C16_Witness ==
    \E i \in ClientIters :
        /\ iter[i].pc = "loop"
        /\ iter[i].emitted = <<>>
        /\ Len(iter[i].outputNodes) = 1
        /\ Len(iter[i].stack) = 3
        /\ iter[i].stack[1] = iter[i].outputNodes[1]
        /\ nodes[iter[i].stack[1]].inputPorts = <<<<iter[i].stack[2], iter[i].stack[3]>>>>
        /\ iter[i].stack[2] # iter[i].stack[3]

\* Iterator i, in whole-graph mode, returns a node from Next().
EmitsWholeGraph(i) ==
    /\ iter[i].visitFullModel
    /\ iter[i].pc = "loop"
    /\ iter'[i].pc = "ready"
    /\ iter'[i].currentNode # NULL

\* C17: in whole-graph mode, when a node is emitted it was the top of the
\* stack and is popped, it has joined the visited set, and above what lay
\* below it the stack holds its dependents, the last dependent lowest and
\* the first dependent on top, so that they are examined in natural order.
C17_DependentsPushedReversed ==
    [][\A i \in Iters :
          EmitsWholeGraph(i) =>
              LET node == iter'[i].currentNode
                  deps == nodes[node].dependentNodes
                  below == Len(iter[i].stack) - 1 IN
              /\ node = Last(iter[i].stack)
              /\ iter'[i].visitedNodes = iter[i].visitedNodes \cup {node}
              /\ node \notin iter[i].visitedNodes
              /\ iter'[i].emitted = Append(iter[i].emitted, node)
              /\ Len(iter'[i].stack) = below + Len(deps)
              /\ SubSeq(iter'[i].stack, 1, below) = Front(iter[i].stack)
              /\ \A k \in 1..Len(deps) :
                    iter'[i].stack[Len(iter'[i].stack) - k + 1] = deps[k]]_vars

\* A whole-graph iterator has just emitted a node with two dependents: the
\* first is on top of the stack, the second right below it.
C17_Witness ==
    \E i \in ClientIters :
        /\ iter[i].visitFullModel
        /\ iter[i].pc = "ready"
        /\ iter[i].currentNode # NULL
        /\ Len(nodes[iter[i].currentNode].dependentNodes) = 2
        /\ Len(iter[i].stack) >= 3
        /\ Last(iter[i].stack) = nodes[iter[i].currentNode].dependentNodes[1]
        /\ Last(Front(iter[i].stack)) = nodes[iter[i].currentNode].dependentNodes[2]

\* The nodes of the running (or last) Deserialize that its container holds.
RestoredHeld ==
    IF restore.model = NULL THEN {}
    ELSE {h \in Range(restore.nodes) : h \in Owned(restore.model)}

\* C18: RegisterDependencies runs on no node before every entry of the
\* description is a node recorded in the context; it runs on the nodes in
\* the order of their entries, once each, and on each before that node is
\* stored in the id map; when Deserialize returns it has run on all.
C18_TwoPhase ==
    /\ restore.registered # <<>> =>
          /\ Len(restore.nodes) = Len(restore.desc)
          /\ \A k \in 1..Len(restore.desc) :
                restore.context[restore.desc[k].id] \in Range(restore.nodes)
    /\ IsPrefix(restore.registered, restore.nodes)
    /\ restore.pc = "construct" => restore.registered = <<>> /\ RestoredHeld = {}
    /\ restore.pc = "register" =>
          Len(restore.registered) = restore.idx - 1
    /\ restore.pc = "insert" =>
          /\ Len(restore.registered) = restore.idx
          /\ restore.nodes[restore.idx] \notin RestoredHeld
    /\ RestoredHeld \subseteq Range(restore.registered)
    /\ (restore.pc = "idle" /\ restore.model # NULL) =>
          restore.registered = restore.nodes

\* RegisterDependencies has run on the second of two restored nodes, whose
\* parent is the first; the first is in the id map, the second not yet.
C18_Witness ==
    /\ restore.pc = "insert"
    /\ restore.idx = 2
    /\ Len(restore.desc) = 2
    /\ restore.registered = restore.nodes
    /\ RestoredHeld = {restore.nodes[1]}
    /\ ParentNodes(restore.nodes[2]) = <<restore.nodes[1]>>

\* The node of the last MapNode call for id among the calls cs, or NULL.
RECURSIVE MostRecent(_, _)
MostRecent(cs, id) ==
    IF cs = <<>> THEN NULL
    ELSE IF Last(cs).op = "MapNode" /\ Last(cs).id = id THEN Last(cs).node
         ELSE MostRecent(Front(cs), id)

\* C19: after any sequence of MapNode and GetNodeFromId calls on a context,
\* GetNodeFromId of an id gives the node of the last MapNode call for that
\* id, and the null node, without failing, for an id of no MapNode call.
C19_LookupMostRecent ==
    /\ \A id \in Ids :
          GetNodeFromId(modelContext.oldToNewNodeMap, id) = MostRecent(modelContext.calls, id)
    /\ (modelContext.calls # <<>> /\ Last(modelContext.calls).op = "GetNodeFromId") =>
          modelContext.result =
              MostRecent(Front(modelContext.calls), Last(modelContext.calls).id)

\* An id was registered, looked up, registered again for another node and
\* looked up again, which gave the second node.
C19_Witness ==
    /\ Len(modelContext.calls) = 4
    /\ modelContext.calls[1].op = "MapNode"
    /\ modelContext.calls[2].op = "GetNodeFromId"
    /\ modelContext.calls[3].op = "MapNode"
    /\ modelContext.calls[4].op = "GetNodeFromId"
    /\ \A k \in 1..4 : modelContext.calls[k].id = modelContext.calls[1].id
    /\ modelContext.calls[1].node # modelContext.calls[3].node
    /\ modelContext.result = modelContext.calls[3].node

\* Every parent link of every node container m holds is a node m holds.
NoDanglingParent(m) ==
    \A h \in Owned(m) : \A q \in Range(ParentNodes(h)) : q # NULL /\ q \in Owned(m)

\* C20: while and after the description GetDescription gave for a connected
\* acyclic container is restored into the empty container, in every state
\* of the insertion loop, every node the id map holds already has all its
\* parents in the id map.
C20_NoDanglingMidRestore ==
    (restoreCount = 1 /\ restore.model = 2 /\ Connected(1)) => NoDanglingParent(2)

\* In the middle of the insertion loop of the restore of a diamond: three
\* of four nodes are in the map, and RegisterDependencies has run on the
\* fourth, the node with two parents.
C20_Witness ==
    /\ restoreCount = 1
    /\ restore.model = 2
    /\ Diamond(1)
    /\ restore.pc = "insert"
    /\ restore.idx = 4
    /\ Size(2) = 3
    /\ Cardinality(Range(ParentNodes(restore.nodes[4]))) = 2
    /\ \E h \in Owned(2) : ParentNodes(h) # <<>>

====
